---- MODULE Spec2Model ----
(***************************************************************************)
(* Model of the IBG dashboard's upstream client (src/lib/solana.ts) and    *)
(* of its polling store (data-provider, src/unnamed/part_002).             *)
(*                                                                         *)
(* SpecGov   : the RequestQueue governor and the operations it runs.       *)
(* SpecGovLive: the same under the scheduling of the event loop.           *)
(* SpecUpstream: the governor and the upstream requests issued around it.  *)
(* SpecQuery : getRecentTransactions and getRewardMetrics.                 *)
(* SpecSoft  : the queries that answer a failure with a fallback, called   *)
(*             one after the other.                                        *)
(* SpecCache : getTokenMetadata and its cache under overlapping calls.     *)
(* SpecCap   : the transaction polls of a window near its cap.             *)
(* SpecClient: one rpcCall / fetchWithRetry with its retries and delays,   *)
(*             and parseTransactionsWithHelius built on fetchWithRetry.    *)
(* SpecStore : DataProvider, its two timers, its requests and the merge of *)
(*             poll results into the transaction window.                   *)
(* SpecFallback: the transaction polls while the history endpoint may be  *)
(*             down and the on-chain fallback answers.                     *)
(* SpecWindow: the transaction polls of DataProvider against an upstream  *)
(*             that may answer with any list of transactions.              *)
(***************************************************************************)
EXTENDS Integers, Sequences, FiniteSets, TLC

VARIABLES
    queue,        \* RequestQueue.queue: ids of the queued calls, oldest first
    processing,   \* RequestQueue.processing
    drains,       \* the running activations of RequestQueue.process, keyed by
                  \* the id of the call whose add() started them
    ops,          \* the calls handed to RequestQueue.add that are queued, running
                  \* or settled in the latest batch: id -> record
    added,        \* number of calls handed to RequestQueue.add so far
    direct,       \* upstream requests in flight that were issued outside the governor
    call,         \* the rpcCall / fetchWithRetry being executed (SpecClient)
    parse,        \* the running parseTransactionsWithHelius (SpecClient)
    store,        \* DataProvider's state: metrics, supply, holders, tokenMetadata,
                  \* transactions, loading, error
    provider,     \* DataProvider's effects: mounted or not, timers, requests in flight
    chainLen,     \* the upstream ledger holds the transactions 1..chainLen
    pollLog,      \* what the polls answered so far and what the last merge dropped
    query,        \* the running on-chain query (getRecentTransactions, getRewardMetrics)
    soft,         \* the running soft queries: slot -> record
    tokenMetadataCache,      \* the module's cache of the token metadata
    tokenMetadataCacheTime,  \* Date.now() of the call that filled it
    clock,        \* the time, in steps of half of CACHE_DURATION
    lastAttempt   \* of the metadata fetches that finished, the one started last

govVars == <<queue, processing, drains, ops, added, direct>>
clientVars == <<call, parse>>
storeVars == <<store, provider, chainLen, pollLog>>
queryVars == <<query>>
softVars == <<soft, tokenMetadataCache, tokenMetadataCacheTime, clock, lastAttempt>>
vars == <<queue, processing, drains, ops, added, direct, call, parse,
          store, provider, chainLen, pollLog, query,
          soft, tokenMetadataCache, tokenMetadataCacheTime, clock, lastAttempt>>

----------------------------------------------------------------------------
(* Bounds of the model *)

MaxLiveOps == 4    \* calls handed to the governor in the runs checked for progress
MaxOps == 7        \* calls submitted to the governor in one run
MaxDirect == 1     \* ungoverned requests in flight at once
MaxSigs == 7       \* signatures handed to parseTransactionsWithHelius
MaxChain == 6      \* transactions on the upstream ledger
MaxAnySig == 2     \* signatures of the entries of an arbitrary response
MaxAnyLen == 2     \* entries of an arbitrary response
MaxPollsInFlight == 2   \* timer polls in flight at once
MaxListed == 4     \* signatures listed for getRecentTransactions
MaxSlack == 2      \* free places of the windows near the cap
MaxFresh == 3      \* new transactions in one result, for the windows near the cap
MaxFreshTotal == 6 \* new transactions in one run, for the windows near the cap
MaxRefreshes == 2  \* static refreshes started in one run
MaxSoft == 2       \* soft queries running at once
MaxClock == 3      \* the time that passes in one run, in steps of the clock

(* Program constants *)

batchSize == 5
batchDelay == 200
maxRetries == 3
baseDelay == 2000
jitterRange == 1000
subBatchSize == 3
subBatchDelay == 1000
maxWindow == 50
initialLimit == 5
pollLimit == 10
fallbackSlice == 10

----------------------------------------------------------------------------
(* Helpers *)

Range(s) == {s[i] : i \in DOMAIN s}

Min(a, b) == IF a < b THEN a ELSE b

Settled(o) == o.st \in {"resolved", "rejected"}

Started(o) == o.st # "queued"

----------------------------------------------------------------------------
(* RequestQueue *)

\* Mutant: the guard forgets the `processing` flag.
ProcessStartsNoFlag(p, q) == ~(Len(q) = 0)

\* Mutant: the guard reads the flag the wrong way round.
ProcessStartsNegated(p, q) == ~(~p \/ Len(q) = 0)

\* process(): `if (this.processing || this.queue.length === 0) return;`
ProcessStarts(p, q) == ~(p \/ Len(q) = 0)

\* Mutant: the whole queue is taken as one batch.
TakeBatchAll(q) == q

\* `this.queue.splice(0, this.batchSize)`: the batch removed ...
TakeBatch(q) == SubSeq(q, 1, Min(batchSize, Len(q)))

\* Mutant: slice in place of splice, the batch stays in the queue.
RestOfQueueKeepsBatch(q) == q

\* ... and what splice leaves in the queue.
RestOfQueue(q) == SubSeq(q, Len(TakeBatch(q)) + 1, Len(q))

\* Mutant: Promise.race in place of Promise.all.
BatchAnyDone(b, os) == \E i \in Range(b) : Settled(os[i])

\* `await Promise.all(promises)`: the batch's wrappers have all settled.
BatchDone(b, os) == \A i \in Range(b) : Settled(os[i])

\* batch.map(async ...) calls every fn() of the batch b synchronously: each
\* operation issues its first request before process() reaches its await.
\* The calls settled in earlier batches were delivered to their callers and
\* are dropped here; `old` marks a call of an earlier batch that is still
\* running when this batch starts, `sync` a call started inside its own add().
StartOps(os, b, inAdd) ==
    [i \in {j \in DOMAIN os : j \in Range(b) \/ ~Settled(os[j])} |->
        IF i \in Range(b)
        THEN [os[i] EXCEPT !.st = "inflight", !.attempt = 0,
                           !.sync = inAdd /\ i = added + 1,
                           !.taken = @ + 1]
        ELSE [os[i] EXCEPT !.old = Started(os[i])]]

\* Mutant: process() returns without clearing the flag.
ProcessingLeftSet == TRUE

\* `this.processing = false;` after the loop.
ProcessingAfterLoop == FALSE

\* The head of `while (this.queue.length > 0)` reached by the activation
\* whose record is dr (keyed d), with the queue q and the calls os as they are
\* at that point; p is the value of `processing` there.
LoopHead(d, dr, q, os, p, inAdd) ==
    IF Len(q) > 0
    THEN /\ queue' = RestOfQueue(q)
         /\ ops' = StartOps(os, TakeBatch(q), inAdd)
         /\ drains' = [x \in (DOMAIN drains) \cup {d} |->
                          IF x = d
                          THEN [dr EXCEPT !.pc = "awaitAll", !.batch = TakeBatch(q),
                                          !.n = @ + 1]
                          ELSE drains[x]]
         /\ processing' = p
    ELSE /\ queue' = q
         /\ ops' = os
         /\ drains' = [x \in (DOMAIN drains) \ {d} |-> drains[x]]
         /\ processing' = ProcessingAfterLoop

\* The opening burst of an activation (the calls submitted from the add()
\* that started it until a call settles) ends with the first call that settles.
CloseBurst(dr) == [dr EXCEPT !.open = FALSE]

\* A call submitted after the opening burst ended: the activation no longer
\* runs its burst alone.
JoinLate(dr) == IF dr.open THEN dr ELSE [dr EXCEPT !.alone = FALSE]

\* What follows `await Promise.all(promises)` in activation d once the last
\* wrapper of its batch has settled: the delay when calls are waiting, else
\* the loop test, which fails and ends the activation.
AfterBatch(d, os) ==
    IF Len(queue) > 0
    THEN /\ drains' = [x \in DOMAIN drains |->
                          IF x = d THEN [CloseBurst(drains[x]) EXCEPT !.pc = "delay"]
                          ELSE CloseBurst(drains[x])]
         /\ ops' = os
         /\ UNCHANGED <<queue, processing>>
    ELSE LoopHead(d, CloseBurst(drains[d]), queue, os, processing, FALSE)

\* A wrapper of a batch settled, leaving the calls os: the activation
\* awaiting that batch goes on when the whole batch has settled.
WrapperSettled(id, os) ==
    IF \E d \in DOMAIN drains :
          /\ drains[d].pc = "awaitAll"
          /\ id \in Range(drains[d].batch)
          /\ BatchDone(drains[d].batch, os)
    THEN AfterBatch(CHOOSE d \in DOMAIN drains :
                        drains[d].pc = "awaitAll" /\ id \in Range(drains[d].batch), os)
    ELSE /\ ops' = os
         /\ drains' = [d \in DOMAIN drains |-> CloseBurst(drains[d])]
         /\ UNCHANGED <<queue, processing>>

\* The activation of process() running when add() is called; the call's own
\* id (the key its activation would get) when none is.
RunningDrain(id) ==
    IF DOMAIN drains = {} THEN id ELSE CHOOSE d \in DOMAIN drains : TRUE

\* `idle`: `processing` was false when add() was called; `at`: the activation
\* running at that time.
\* `taken`: how many times the call was spliced into a batch; `settles`: how
\* many times its wrapper called resolve or reject; `exhausted`: its own last
\* attempt failed.
NewOp(id) == [st |-> "queued", attempt |-> 0, sync |-> FALSE, old |-> FALSE,
              idle |-> ~processing, at |-> RunningDrain(id),
              taken |-> 0, settles |-> 0, exhausted |-> FALSE]

NewDrain(id) == [pc |-> "awaitAll", batch |-> <<>>, n |-> 0, first |-> id,
                 open |-> TRUE, alone |-> TRUE]

\* add(fn): push, then process() up to its first await; `max` bounds the
\* number of calls submitted in one run.
Submit(max) ==
    /\ added < max
    /\ added' = added + 1
    /\ LET id == added + 1
           q1 == Append(queue, id)
           os1 == [i \in (DOMAIN ops) \cup {id} |->
                      IF i = id THEN NewOp(id) ELSE ops[i]]
       IN IF ProcessStarts(processing, q1)
          THEN LoopHead(id, NewDrain(id), q1, os1, TRUE, TRUE)
          ELSE /\ queue' = q1
               /\ ops' = os1
               /\ drains' = [d \in DOMAIN drains |-> JoinLate(drains[d])]
               /\ UNCHANGED processing
    /\ UNCHANGED <<direct, clientVars, storeVars, queryVars, softVars>>

Add == Submit(MaxOps)

\* `await delay(this.batchDelay)` of activation d is over: back to the loop head.
DelayExpires(d) ==
    /\ d \in DOMAIN drains
    /\ drains[d].pc = "delay"
    /\ LoopHead(d, drains[d], queue, ops, processing, FALSE)
    /\ UNCHANGED <<added, direct, clientVars, storeVars, queryVars, softVars>>

----------------------------------------------------------------------------
(* The operations run by the governor: retryWithBackoff around one request *)

\* Mutant: the rethrow comes one attempt late.
LastAttemptOneLate(i) == i = maxRetries

\* `if (i === maxRetries - 1) throw error;`
LastAttempt(i) == i = maxRetries - 1

\* `resolve(result)` in the wrapper of call id.
ResolveOwn(os, id) ==
    [os EXCEPT ![id].st = "resolved", ![id].attempt = 0, ![id].settles = @ + 1]

\* Mutant: the failure of one call rejects every call of its batch that is
\* still running.
RejectBatchMates(os, id) ==
    [i \in DOMAIN os |->
        IF i = id \/ (/\ \E d \in DOMAIN drains : {i, id} \subseteq Range(drains[d].batch)
                      /\ ~Settled(os[i]))
        THEN [os[i] EXCEPT !.st = "rejected", !.attempt = 0, !.settles = @ + 1]
        ELSE os[i]]

\* `reject(error)` in the catch block of the wrapper of call id.
RejectOwn(os, id) ==
    [os EXCEPT ![id].st = "rejected", ![id].attempt = 0, ![id].settles = @ + 1]

\* The request of attempt ops[id].attempt succeeds: retryWithBackoff returns,
\* the wrapper calls resolve(result).
AttemptSucceeds(id) ==
    /\ id \in DOMAIN ops
    /\ ops[id].st = "inflight"
    /\ WrapperSettled(id, ResolveOwn(ops, id))
    /\ UNCHANGED <<added, direct, clientVars, storeVars, queryVars, softVars>>

\* The request fails: rethrown on the last attempt (the wrapper calls
\* reject(error)), otherwise followed by a delay.
AttemptFails(id) ==
    /\ id \in DOMAIN ops
    /\ ops[id].st = "inflight"
    /\ IF LastAttempt(ops[id].attempt)
       THEN WrapperSettled(id, RejectOwn([ops EXCEPT ![id].exhausted = TRUE], id))
       ELSE /\ ops' = [ops EXCEPT ![id].st = "backoff"]
            /\ UNCHANGED <<queue, processing, drains>>
    /\ UNCHANGED <<added, direct, clientVars, storeVars, queryVars, softVars>>

\* The delay before the next attempt is over: `for (...; i++)`, `await fn()`.
BackoffExpires(id) ==
    /\ id \in DOMAIN ops
    /\ ops[id].st = "backoff"
    /\ ops' = [ops EXCEPT ![id].st = "inflight", ![id].attempt = @ + 1]
    /\ UNCHANGED <<queue, processing, drains, added, direct, clientVars, storeVars, queryVars, softVars>>

----------------------------------------------------------------------------
(* Requests issued without the governor *)

\* getRecentTransactions: connection.getSignaturesForAddress and
\* connection.getParsedTransaction go to the RPC endpoint directly.
ConnectionRequest ==
    /\ direct < MaxDirect
    /\ direct' = direct + 1
    /\ UNCHANGED <<queue, processing, drains, ops, added, clientVars, storeVars, queryVars, softVars>>

\* getUSDConversionRate: fetch() of the quote endpoint, directly.
QuoteRequest ==
    /\ direct < MaxDirect
    /\ direct' = direct + 1
    /\ UNCHANGED <<queue, processing, drains, ops, added, clientVars, storeVars, queryVars, softVars>>

\* The response of a request issued directly.
DirectResponds ==
    /\ direct > 0
    /\ direct' = direct - 1
    /\ UNCHANGED <<queue, processing, drains, ops, added, clientVars, storeVars, queryVars, softVars>>

\* Upstream requests in flight.
InFlight == Cardinality({i \in DOMAIN ops : ops[i].st = "inflight"}) + direct

----------------------------------------------------------------------------

----------------------------------------------------------------------------
(* fetchWithRetry and rpcCall: retryWithBackoff(fn, 3, 2000) around fetch() *)

\* haystack.includes(needle), case-sensitive as in JavaScript.
Includes(hay, needle) ==
    \E k \in 1..(Len(hay) - Len(needle) + 1) :
        SubSeq(hay, k, k + Len(needle) - 1) = needle

\* Values of Math.random() * 1000.
Jitters == {0, 500, jitterRange - 1}

\* What the upstream answers to one request: a 2xx response, the statuses
\* 429 and 500, a network failure of fetch(), and for JSON-RPC a 2xx response
\* whose body carries an `error` with one of these messages.
RpcErrorMessages == {"Internal error", "rate limited"}

Responses(kind) ==
    {[type |-> t, msg |-> ""] : t \in {"ok", "s429", "s500", "network"}}
    \cup (IF kind = "rpc"
          THEN {[type |-> "rpcError", msg |-> m] : m \in RpcErrorMessages}
          ELSE {})

\* The message of the Error thrown by fn for a response that is not a success.
ErrorMessage(r) ==
    CASE r.type = "s429" -> "Rate limit exceeded"
      [] r.type = "s500" -> "HTTP error! status: " \o "500"
      [] r.type = "network" -> "Failed to fetch"
      [] r.type = "rpcError" -> "RPC Error: " \o r.msg

\* `error.message?.includes("429") || error.message?.includes("rate limit")`
IsRateLimitError(msg) == Includes(msg, "429") \/ Includes(msg, "rate limit")

\* The delay retryWithBackoff waits after the failure of attempt i.
RetryDelay(i, msg, jitter) ==
    IF IsRateLimitError(msg)
    THEN baseDelay * 2^i + jitter
    ELSE baseDelay

\* `errs`: the messages of the errors thrown by the attempts made so far.
NoCall == [st |-> "none", kind |-> "none", owner |-> "none", i |-> 0,
           err |-> "", delayMs |-> 0, last |-> "none", errs |-> <<>>]

\* requestQueue.add(() => retryWithBackoff(...)) for a call that is alone in
\* the governor: add() starts it at once, attempt 0 is in flight.
NewCall(kind, owner) == [NoCall EXCEPT !.st = "inflight", !.kind = kind,
                                       !.owner = owner]

\* `single`: called by parseTransactionWithHelius; `one`: what that returns.
ParseIdle == [st |-> "idle", n |-> 0, i |-> 0, results |-> <<>>,
              requested |-> {}, failed429 |-> {}, delayed |-> {},
              failed |-> {}, bodies |-> {},
              single |-> FALSE, one |-> "none"]

\* rpcCall(method, params) by one of the queries.
StartRpcCall ==
    /\ call.st = "none" /\ parse.st = "idle"
    /\ call' = NewCall("rpc", "query")
    /\ UNCHANGED <<parse, govVars, storeVars, queryVars, softVars>>

\* fetchWithRetry(url, options) by one of the queries.
StartFetch ==
    /\ call.st = "none" /\ parse.st = "idle"
    /\ call' = NewCall("rest", "query")
    /\ UNCHANGED <<parse, govVars, storeVars, queryVars, softVars>>

\* The upstream answers the request of attempt call.i with r.
Respond(r) ==
    /\ call.st = "inflight"
    /\ r \in Responses(call.kind)
    /\ IF r.type = "ok"
       THEN call' = [call EXCEPT !.st = "returned", !.last = r.type]
       ELSE IF LastAttempt(call.i)
       THEN call' = [call EXCEPT !.st = "thrown", !.err = ErrorMessage(r),
                                 !.last = r.type,
                                 !.errs = Append(@, ErrorMessage(r))]
       ELSE \E jitter \in Jitters :
               call' = [call EXCEPT !.st = "delay", !.err = ErrorMessage(r),
                                    !.last = r.type,
                                    !.errs = Append(@, ErrorMessage(r)),
                                    !.delayMs = RetryDelay(call.i, ErrorMessage(r), jitter)]
    /\ UNCHANGED <<parse, govVars, storeVars, queryVars, softVars>>

\* `await delay(...)` of retryWithBackoff is over: the next attempt.
RetryDelayExpires ==
    /\ call.st = "delay"
    /\ call' = [call EXCEPT !.st = "inflight", !.i = @ + 1, !.err = "",
                            !.delayMs = 0]
    /\ UNCHANGED <<parse, govVars, storeVars, queryVars, softVars>>

\* The query that made the call takes its result or its error.
CallSettles ==
    /\ call.owner = "query"
    /\ call.st \in {"returned", "thrown"}
    /\ call' = NoCall
    /\ UNCHANGED <<parse, govVars, storeVars, queryVars, softVars>>

----------------------------------------------------------------------------
(* parseTransactionsWithHelius(signatures): the signatures are 1..n *)

\* `signatures.slice(i, i + batchSize)` with the sub-batch size 3.
SubBatch(n, i) == [k \in 1..(Min(i + subBatchSize, n) - i) |-> i + k]

\* Bodies of a 2xx response of the parse endpoint: one parsed transaction per
\* signature, the same with null in place of the first one, or no array.
Bodies == {"records", "withNull", "notArray"}

\* data.filter((parsedTx) => parsedTx && parsedTx.signature).map(...)
Parsed(body, batch) == IF body = "withNull" THEN Tail(batch) ELSE batch

\* Mutant: the loop is left on every error.
ParseStopsOnAnyError(msg) == TRUE

\* catch: `if (error.message?.includes("rate limit")) break;`
ParseStops(msg) == Includes(msg, "rate limit")

\* The loop test `i < signatures.length` reached with the loop state ps and
\* index i: the next sub-batch is requested through fetchWithRetry, or the
\* loop ends and the results are returned.
ParseIteration(ps, i) ==
    IF i < ps.n
    THEN /\ parse' = [ps EXCEPT !.st = "request", !.i = i,
                                !.requested = @ \cup {i}]
         /\ call' = NewCall("rest", "parse")
    ELSE /\ parse' = [ps EXCEPT !.st = "done", !.i = i]
         /\ call' = NoCall

\* parseTransactionsWithHelius is called with n signatures.
StartParse(n) ==
    /\ call.st = "none" /\ parse.st = "idle"
    /\ IF n = 0
       THEN /\ parse' = [ParseIdle EXCEPT !.st = "done"]
            /\ call' = NoCall
       ELSE ParseIteration([ParseIdle EXCEPT !.n = n], 0)
    /\ UNCHANGED <<govVars, storeVars, queryVars, softVars>>

\* fetchWithRetry returned a response (always a 2xx one) with this body.
ParseResponse(body) ==
    /\ call.owner = "parse" /\ call.st = "returned"
    /\ IF body = "notArray"
       THEN ParseIteration([parse EXCEPT !.bodies = @ \cup {<<parse.i, body>>}],
                           parse.i + subBatchSize)
       ELSE LET ps == [parse EXCEPT
                          !.results = @ \o Parsed(body, SubBatch(parse.n, parse.i)),
                          !.bodies = @ \cup {<<parse.i, body>>}]
            IN IF parse.i + subBatchSize < parse.n
               THEN /\ parse' = [ps EXCEPT !.st = "delay"]
                    /\ call' = NoCall
               ELSE ParseIteration(ps, parse.i + subBatchSize)
    /\ UNCHANGED <<govVars, storeVars, queryVars, softVars>>

\* fetchWithRetry threw after its last attempt: the inner catch block.
\* failed records the sub-batches that ended here, failed429 those whose last
\* attempt was answered 429.
ParseCatch ==
    /\ call.owner = "parse" /\ call.st = "thrown"
    /\ LET ps == [parse EXCEPT !.failed = @ \cup {parse.i},
                               !.failed429 =
                     IF call.last = "s429" THEN @ \cup {parse.i} ELSE @]
       IN IF ParseStops(call.err)
          THEN /\ parse' = [ps EXCEPT !.st = "done"]
               /\ call' = NoCall
          ELSE ParseIteration(ps, parse.i + subBatchSize)
    /\ UNCHANGED <<govVars, storeVars, queryVars, softVars>>

\* `await delay(1000)` between two sub-batches is over. delayed records the
\* sub-batches requested behind that delay.
ParseDelayExpires ==
    /\ parse.st = "delay"
    /\ ParseIteration([parse EXCEPT !.delayed = @ \cup {parse.i + subBatchSize}],
                      parse.i + subBatchSize)
    /\ UNCHANGED <<govVars, storeVars, queryVars, softVars>>

\* The caller takes the returned list.
ParseReturns ==
    /\ parse.st = "done" /\ ~parse.single
    /\ parse' = ParseIdle
    /\ call' = NoCall
    /\ UNCHANGED <<govVars, storeVars, queryVars, softVars>>

----------------------------------------------------------------------------
(* parseTransactionWithHelius(signature) *)

\* How parseTransactionsWithHelius ends in the loop state ps: its inner catch
\* took every error of fetchWithRetry and its outer catch returns [], so it
\* returns its results and throws nothing.
ParseOutcome(ps) == [thrown |-> FALSE, err |-> "", value |-> ps.results]

\* parseTransactionWithHelius around that outcome: `transactions[0] || null`,
\* and in its catch block parseTransactionFallback for a rate-limit error,
\* null for any other.
OneResult(outcome) ==
    IF outcome.thrown
    THEN IF Includes(outcome.err, "rate limit") THEN "fallback" ELSE "null"
    ELSE IF Len(outcome.value) > 0 THEN "enhanced" ELSE "null"

\* parseTransactionWithHelius(signature): parseTransactionsWithHelius([signature]).
StartParseOne ==
    /\ call.st = "none" /\ parse.st = "idle"
    /\ ParseIteration([ParseIdle EXCEPT !.n = 1, !.single = TRUE], 0)
    /\ UNCHANGED <<govVars, storeVars, queryVars, softVars>>

\* parseTransactionsWithHelius([signature]) is over.
ParseOneSettles ==
    /\ parse.st = "done" /\ parse.single
    /\ parse' = [parse EXCEPT !.st = "oneDone", !.one = OneResult(ParseOutcome(parse))]
    /\ call' = NoCall
    /\ UNCHANGED <<govVars, storeVars, queryVars, softVars>>

\* The caller takes the record or null.
ParseOneReturns ==
    /\ parse.st = "oneDone"
    /\ parse' = ParseIdle
    /\ call' = NoCall
    /\ UNCHANGED <<govVars, storeVars, queryVars, softVars>>

----------------------------------------------------------------------------
(* The upstream ledger and getRecentTransactionsWithEnhancedParsing *)

\* A field the upstream left out of a transaction object.
Missing == "undefined"

\* JavaScript's `v || d` on a string field.
OrElse(v, d) == IF v = Missing \/ v = "" THEN d ELSE v

\* The transaction with signature sig as the history endpoint returns it
\* (timestamps in seconds, two transactions per second). The ledger mixes
\* transactions with and without description, type and transfers.
RawTx(sig) ==
    LET k == sig % 8
    IN [signature |-> sig,
        timestamp |-> (sig + 1) \div 2,
        type |-> IF k = 3 THEN Missing ELSE IF k \in {2, 6} THEN "TRANSFER" ELSE "SWAP",
        description |-> IF k = 4 THEN "  "
                        ELSE IF k = 7 THEN Missing
                        ELSE IF k \in {2, 6} THEN "sent tokens" ELSE "swapped tokens",
        tokenTransfers |-> IF k \in {2, 6} THEN <<>> ELSE <<"ipg">>,
        nativeTransfers |-> IF k = 2 THEN <<"sol">> ELSE <<>>]

\* An entry of the response that is null or has no signature.
NullEntry == [RawTx(1) EXCEPT !.signature = 0]

\* .map((parsedTx) => ({...})): the EnhancedTokenTransaction built from an entry.
EnhancedRecord(raw) ==
    [signature |-> raw.signature,
     timestamp |-> raw.timestamp * 1000,
     type |-> OrElse(raw.type, "UNKNOWN"),
     description |-> OrElse(raw.description, ""),
     tokenTransfers |-> raw.tokenTransfers,
     nativeTransfers |-> raw.nativeTransfers]

\* Array.prototype.sort((a, b) => b.timestamp - a.timestamp), which is stable:
\* tx goes behind the records that are as new or newer.
RECURSIVE InsertNewestFirst(_, _)
InsertNewestFirst(tx, sorted) ==
    IF sorted = <<>> THEN <<tx>>
    ELSE IF Head(sorted).timestamp >= tx.timestamp
    THEN <<Head(sorted)>> \o InsertNewestFirst(tx, Tail(sorted))
    ELSE <<tx>> \o sorted

RECURSIVE SortNewestFirst(_)
SortNewestFirst(txs) ==
    IF txs = <<>> THEN <<>>
    ELSE InsertNewestFirst(txs[Len(txs)], SortNewestFirst(SubSeq(txs, 1, Len(txs) - 1)))

HasSignature(raw) == raw.signature # 0

\* getRecentTransactionsWithEnhancedParsing on the response body `data`:
\* filter, map, sort newest first.
EnhancedResult(data) ==
    LET kept == SelectSeq(data, HasSignature)
    IN SortNewestFirst([k \in DOMAIN kept |-> EnhancedRecord(kept[k])])

\* The body an upstream that honours `limit` returns: the `limit` most recent
\* transactions of the ledger, newest first.
RecentData(limit) ==
    [k \in 1..Min(limit, chainLen) |-> RawTx(chainLen - k + 1)]

\* Other bodies: any short list of entries, with repeated and null entries.
AnyEntries == {NullEntry} \cup {RawTx(sg) : sg \in 1..MaxAnySig}

AnyData == UNION {[1..n -> AnyEntries] : n \in 0..MaxAnyLen}

----------------------------------------------------------------------------
(* DataProvider: the merge of a poll result into the window *)

Signatures(txs) == {txs[k].signature : k \in DOMAIN txs}

\* tx.description.trim() !== "" for a description that is not empty.
RECURSIVE IsBlank(_)
IsBlank(str) == Len(str) = 0 \/ (SubSeq(str, 1, 1) = " " /\ IsBlank(SubSeq(str, 2, Len(str))))

\* First filter of validNewTransactions.
HasTransfers(tx) == Len(tx.tokenTransfers) > 0 \/ Len(tx.nativeTransfers) > 0

\* Mutant: the second filter looks at the type alone.
IsClassifiedByTypeOnly(tx) ==
    /\ tx.type # "UNKNOWN"
    /\ tx.type # "" /\ tx.type # Missing

\* Second filter of validNewTransactions.
IsClassified(tx) ==
    /\ tx.type # "UNKNOWN"
    /\ tx.type # "" /\ tx.type # Missing
    /\ tx.description # "" /\ tx.description # Missing
    /\ ~IsBlank(tx.description)

\* Mutant: the result is taken whole, whatever the window holds.
NewTransactionsAll(prev, txs) == txs

\* txs.filter((tx) => !existingSignatures.has(tx.signature))
NewTransactions(prev, txs) ==
    LET fresh(tx) == tx.signature \notin Signatures(prev)
    IN SelectSeq(txs, fresh)

ValidNewTransactions(prev, txs) ==
    SelectSeq(SelectSeq(NewTransactions(prev, txs), HasTransfers), IsClassified)

\* Mutant: the merged list is kept whole.
MergeWindowUncapped(prev, txs) ==
    LET valid == ValidNewTransactions(prev, txs)
    IN IF Len(valid) = 0 THEN prev ELSE valid \o prev

\* Mutant: a result with nothing new empties the window.
MergeWindowClearsWhenNoneNew(prev, txs) ==
    LET valid == ValidNewTransactions(prev, txs)
        updated == valid \o prev
    IN IF Len(valid) = 0 THEN <<>>
       ELSE SubSeq(updated, 1, Min(maxWindow, Len(updated)))

\* Mutant: the window is set to the new records of the result alone.
MergeWindowReplaces(prev, txs) ==
    LET valid == ValidNewTransactions(prev, txs)
    IN IF Len(valid) = 0 THEN prev
       ELSE SubSeq(valid, 1, Min(maxWindow, Len(valid)))

\* The updater passed to setTransactions.
MergeWindow(prev, txs) ==
    LET valid == ValidNewTransactions(prev, txs)
        updated == valid \o prev
    IN IF Len(valid) = 0 THEN prev
       ELSE SubSeq(updated, 1, Min(maxWindow, Len(updated)))

\* What updated.slice(0, 50) cut off.
DroppedBy(prev, txs) ==
    LET updated == ValidNewTransactions(prev, txs) \o prev
    IN IF Len(ValidNewTransactions(prev, txs)) = 0 THEN <<>>
       ELSE SubSeq(updated, Min(maxWindow, Len(updated)) + 1, Len(updated))

----------------------------------------------------------------------------
(* DataProvider: state, effects, timers *)

StoreNew == [metrics |-> 0, supply |-> 0, holders |-> 0, tokenMetadata |-> 0,
             transactions |-> <<>>, loading |-> TRUE, error |-> "null"]

ProviderNew == [phase |-> "new", isMounted |-> FALSE, pollTimer |-> FALSE,
                staticTimer |-> FALSE, initialPolls |-> 0, laterPolls |-> 0,
                statics |-> {}, refreshes |-> 0]

\* `pending`: the last merge that added records was made while another poll
\* was in flight, and no poll started since; `overlap`: a poll that was in
\* flight during such a merge has added records in its turn.
\* `quiet`: the last result handed to the merge held nothing new for a window
\* that held records.
\* `offered`: the signatures of the fallback records with token transfers
\* that were handed to the merge.
PollLogNew == [recent |-> TRUE, distinct |-> TRUE, dropped |-> <<>>,
               pending |-> FALSE, overlap |-> FALSE, quiet |-> FALSE,
               offered |-> {}]

\* `const limit = isInitial ? 5 : 10;`
Limit(isInitial) == IF isInitial THEN initialLimit ELSE pollLimit

\* Both effects run when the provider mounts: fetchTransactions(true) up to
\* its await and setInterval(6000); fetchStaticData() up to its await and
\* setInterval(300000).
Mount ==
    /\ provider.phase = "new"
    /\ store' = [store EXCEPT !.loading = TRUE, !.error = "null"]
    /\ provider' = [provider EXCEPT !.phase = "mounted", !.isMounted = TRUE,
                                    !.pollTimer = TRUE, !.staticTimer = TRUE,
                                    !.initialPolls = 1,
                                    !.statics = {1}, !.refreshes = 1]
    /\ UNCHANGED <<chainLen, pollLog, govVars, clientVars, queryVars, softVars>>

\* The cleanups of both effects.
Unmount ==
    /\ provider.phase = "mounted"
    /\ provider' = [provider EXCEPT !.phase = "unmounted", !.isMounted = FALSE,
                                    !.pollTimer = FALSE, !.staticTimer = FALSE]
    /\ UNCHANGED <<store, chainLen, pollLog, govVars, clientVars, queryVars, softVars>>

\* The 6 s timer fires: fetchTransactions(false) up to its await.
PollTick ==
    /\ provider.pollTimer
    /\ provider.laterPolls < MaxPollsInFlight
    /\ store' = [store EXCEPT !.error = "null"]
    /\ provider' = [provider EXCEPT !.laterPolls = @ + 1]
    /\ pollLog' = [pollLog EXCEPT !.pending = FALSE]
    /\ UNCHANGED <<chainLen, govVars, clientVars, queryVars, softVars>>

\* The 5 min timer fires: fetchStaticData() up to its await.
StaticTick ==
    /\ provider.staticTimer
    /\ provider.refreshes < MaxRefreshes
    /\ store' = [store EXCEPT !.error = "null"]
    /\ provider' = [provider EXCEPT !.refreshes = @ + 1,
                                    !.statics = @ \cup {provider.refreshes + 1}]
    /\ UNCHANGED <<chainLen, pollLog, govVars, clientVars, queryVars, softVars>>

PollInFlight(isInitial) ==
    IF isInitial THEN provider.initialPolls > 0 ELSE provider.laterPolls > 0

PollDone(isInitial) ==
    IF isInitial THEN [provider EXCEPT !.initialPolls = @ - 1]
    ELSE [provider EXCEPT !.laterPolls = @ - 1]

\* fetchTransactions after `await getRecentTransactionsWithEnhancedParsing`
\* returned txs.
OnPollResult(isInitial, txs) ==
    IF ~provider.isMounted
    THEN UNCHANGED store
    ELSE store' = [store EXCEPT
                      !.transactions = MergeWindow(@, txs),
                      !.loading = IF isInitial THEN FALSE ELSE @]

NoRepeat(txs) == Cardinality(Signatures(txs)) = Len(txs)

\* The log after the result txs of a poll was handed to the merge.
Logged(log, txs) ==
    IF ~provider.isMounted
    THEN log
    ELSE IF Len(ValidNewTransactions(store.transactions, txs)) = 0
    THEN [log EXCEPT !.quiet = Len(store.transactions) > 0]
    ELSE [log EXCEPT
             !.quiet = FALSE,
             !.dropped = DroppedBy(store.transactions, txs),
             !.overlap = @ \/ log.pending,
             !.pending = provider.initialPolls + provider.laterPolls > 1]

\* The history endpoint answers a poll with the most recent transactions.
PollAnswersRecent(isInitial) ==
    /\ PollInFlight(isInitial)
    /\ provider' = PollDone(isInitial)
    /\ OnPollResult(isInitial, EnhancedResult(RecentData(Limit(isInitial))))
    /\ pollLog' = Logged(pollLog, EnhancedResult(RecentData(Limit(isInitial))))
    /\ UNCHANGED <<chainLen, govVars, clientVars, queryVars, softVars>>

\* The history endpoint answers a poll with some other list.
PollAnswersAny(isInitial, data) ==
    /\ PollInFlight(isInitial)
    /\ data # RecentData(Limit(isInitial))
    /\ provider' = PollDone(isInitial)
    /\ OnPollResult(isInitial, EnhancedResult(data))
    /\ pollLog' = Logged([pollLog EXCEPT
                              !.recent = FALSE,
                              !.distinct = @ /\ NoRepeat(EnhancedResult(data))],
                          EnhancedResult(data))
    /\ UNCHANGED <<chainLen, govVars, clientVars, queryVars, softVars>>

\* getRecentTransactionsWithEnhancedParsing rejects (its fallback
\* getRecentTransactions threw): the catch block of fetchTransactions.
PollFails(isInitial) ==
    /\ PollInFlight(isInitial)
    /\ provider' = PollDone(isInitial)
    /\ IF ~provider.isMounted
       THEN UNCHANGED store
       ELSE store' = [store EXCEPT !.error = "transactions",
                                   !.loading = IF isInitial THEN FALSE ELSE @]
    /\ UNCHANGED <<chainLen, pollLog, govVars, clientVars, queryVars, softVars>>

\* Promise.all of the four static queries of refresh g resolved.
StaticSucceeds(g) ==
    /\ g \in provider.statics
    /\ provider' = [provider EXCEPT !.statics = @ \ {g}]
    /\ store' = [store EXCEPT !.metrics = g, !.supply = g, !.holders = g,
                              !.tokenMetadata = g, !.loading = FALSE]
    /\ UNCHANGED <<chainLen, pollLog, govVars, clientVars, queryVars, softVars>>

\* Mutant: the catch block also empties the snapshot.
FailedRefreshClears(st) ==
    [st EXCEPT !.error = "static", !.loading = FALSE, !.metrics = 0, !.supply = 0,
               !.holders = 0, !.tokenMetadata = 0]

\* The catch block of fetchStaticData: setError(e); setLoading(false).
FailedRefresh(st) == [st EXCEPT !.error = "static", !.loading = FALSE]

\* Promise.all rejected (getRewardMetrics threw): the catch block.
StaticFails(g) ==
    /\ g \in provider.statics
    /\ provider' = [provider EXCEPT !.statics = @ \ {g}]
    /\ store' = FailedRefresh(store)
    /\ UNCHANGED <<chainLen, pollLog, govVars, clientVars, queryVars, softVars>>

\* The j-th transaction of a ledger of meaningful transactions only.
BusySig(j) == 8 * j

\* A window of len records of that ledger, newest first.
BusyWindow(len) == [k \in 1..len |-> EnhancedRecord(RawTx(BusySig(len - k + 1)))]

\* The rank in that ledger of the newest record the window holds.
Newest(txs) == IF Len(txs) = 0 THEN 0 ELSE txs[1].signature \div 8

\* A response with k transactions the window lacks, followed by the two
\* newest it holds.
FreshData(k) ==
    LET top == Newest(store.transactions)
    IN [j \in 1..(k + Min(2, top)) |-> RawTx(BusySig(top + k - j + 1))]

\* The history endpoint answers a timer poll with k new transactions.
PollAnswersFresh(k) ==
    /\ PollInFlight(FALSE)
    /\ Newest(store.transactions) + k <= maxWindow + MaxFreshTotal
    /\ provider' = PollDone(FALSE)
    /\ OnPollResult(FALSE, EnhancedResult(FreshData(k)))
    /\ pollLog' = Logged(pollLog, EnhancedResult(FreshData(k)))
    /\ UNCHANGED <<chainLen, govVars, clientVars, queryVars, softVars>>

\* A transaction lands on the ledger.
ChainGrows ==
    /\ chainLen < MaxChain
    /\ chainLen' = chainLen + 1
    /\ UNCHANGED <<store, provider, pollLog, govVars, clientVars, queryVars, softVars>>

----------------------------------------------------------------------------
(* getRecentTransactions and getRewardMetrics: the on-chain queries *)

NoQuery == [fn |-> "none", st |-> "idle", sigs |-> <<>>, i |-> 0,
            transactions |-> <<>>, failed |-> {}, value |-> <<>>, err |-> ""]

\* The record getRecentTransactions pushes for a parsed transaction: type
\* "TRANSFER", the mint's post-balances as tokenTransfers, no description.
FallbackRecord(sig) ==
    [signature |-> sig,
     timestamp |-> RawTx(sig).timestamp * 1000,
     type |-> "TRANSFER",
     description |-> Missing,
     tokenTransfers |-> RawTx(sig).tokenTransfers,
     nativeTransfers |-> <<>>]

\* getRewardMetrics on the list txs: every record of getRecentTransactions is
\* a TRANSFER, counted with 0.1% of the amount of its first token transfer
\* (1000 tokens in every transaction of the ledger).
RECURSIVE RewardPool(_)
RewardPool(txs) ==
    IF txs = <<>> THEN 0
    ELSE (IF Len(Head(txs).tokenTransfers) > 0 THEN 1 ELSE 0) + RewardPool(Tail(txs))

Metrics(txs) ==
    [totalRewardPool |-> RewardPool(txs),
     distributionPercentage |-> 50,
     totalTransactions |-> Len(txs)]

\* What the query returns once getRecentTransactions has the list txs.
QueryValue(fn, txs) ==
    IF fn = "metrics" THEN Metrics(SortNewestFirst(txs)) ELSE SortNewestFirst(txs)

\* The message of the Error the query throws from its catch block.
QueryError(fn) ==
    IF fn = "metrics"
    THEN "Failed to fetch real reward metrics from Solana blockchain"
    ELSE "Failed to fetch real transaction data from Solana blockchain"

\* getRecentTransactions() is called, by a caller or as the first statement
\* of getRewardMetrics(): connection.getSignaturesForAddress is awaited.
StartQuery(fn) ==
    /\ query.st = "idle"
    /\ query' = [NoQuery EXCEPT !.fn = fn, !.st = "listing"]
    /\ UNCHANGED <<govVars, clientVars, storeVars, softVars>>

\* `for (const sig of signatures.slice(0, 10))` reached with the state q after
\* i signatures: the next getParsedTransaction, or the return.
NextSignature(q, i) ==
    IF i < Min(fallbackSlice, Len(q.sigs))
    THEN [q EXCEPT !.st = "fetching", !.i = i + 1]
    ELSE [q EXCEPT !.st = "returned", !.i = i,
                   !.value = QueryValue(q.fn, q.transactions)]

\* The signature listing answers with the n latest signatures, newest first.
ListingAnswers(n) ==
    /\ query.st = "listing"
    /\ query' = NextSignature([query EXCEPT !.sigs = [k \in 1..n |-> n - k + 1]], 0)
    /\ UNCHANGED <<govVars, clientVars, storeVars, softVars>>

\* The signature listing fails: the outer catch block throws.
ListingFails ==
    /\ query.st = "listing"
    /\ query' = [query EXCEPT !.st = "thrown", !.err = QueryError(query.fn)]
    /\ UNCHANGED <<govVars, clientVars, storeVars, softVars>>

\* getParsedTransaction answers: with the transaction, or with null or a
\* transaction that failed on chain (skipped by `continue`).
TransactionAnswers(parsed) ==
    /\ query.st = "fetching"
    /\ query' = NextSignature(
                   IF parsed
                   THEN [query EXCEPT !.transactions =
                            Append(@, FallbackRecord(query.sigs[query.i]))]
                   ELSE query,
                   query.i)
    /\ UNCHANGED <<govVars, clientVars, storeVars, softVars>>

\* getParsedTransaction fails: the inner catch block logs and continues.
TransactionFails ==
    /\ query.st = "fetching"
    /\ query' = NextSignature([query EXCEPT !.failed = @ \cup {query.sigs[query.i]}],
                              query.i)
    /\ UNCHANGED <<govVars, clientVars, storeVars, softVars>>

\* The caller takes the value returned or the error thrown.
QueryDone ==
    /\ query.st \in {"returned", "thrown"}
    /\ query' = NoQuery
    /\ UNCHANGED <<govVars, clientVars, storeVars, softVars>>

----------------------------------------------------------------------------
(* DataProvider polling while the enhanced history endpoint is down *)

\* What getRecentTransactionsWithEnhancedParsing returns from its catch
\* block: the records of getRecentTransactions for the latest signatures,
\* every getParsedTransaction having answered.
FallbackResult ==
    SortNewestFirst([k \in 1..Min(fallbackSlice, chainLen) |->
                        FallbackRecord(chainLen - k + 1)])

\* The signatures of the records of txs that carry token transfers.
WithTokenTransfers(txs) ==
    {txs[k].signature : k \in {j \in DOMAIN txs : Len(txs[j].tokenTransfers) > 0}}

\* The history endpoint fails and the poll is answered by the fallback.
PollAnswersFallback(isInitial) ==
    /\ PollInFlight(isInitial)
    /\ provider' = PollDone(isInitial)
    /\ OnPollResult(isInitial, FallbackResult)
    /\ pollLog' = [Logged(pollLog, FallbackResult) EXCEPT
                      !.offered = IF provider.isMounted
                                  THEN @ \cup WithTokenTransfers(FallbackResult)
                                  ELSE @]
    /\ UNCHANGED <<chainLen, govVars, clientVars, queryVars, softVars>>

----------------------------------------------------------------------------
(* The soft queries and the token-metadata cache *)

SoftQueries ==
    {"getTokenSupply", "getTopHolders", "getWalletInfo",
     "getAddressTransactionHistory", "getTokenMetadata", "getUSDConversionRate"}

\* An await on the upstream, with the function whose try block holds it.
Await(via, scope) == [via |-> via, scope |-> scope]

MetadataSteps ==
    <<Await("fetchWithRetry", "getTokenMetadata"),
      Await("json", "getTokenMetadata"),
      Await("rpcCall", "getTokenMetadata")>>

HolderSteps ==
    <<Await("rpcCall", "getTopHolders"), Await("rpcCall", "getTopHolders")>>

HistorySteps ==
    <<Await("fetchWithRetry", "getAddressTransactionHistory"),
      Await("json", "getAddressTransactionHistory")>>

\* The awaits of a soft query in the order of its body; the queries it calls
\* are laid out in place.
Steps(fn) ==
    CASE fn = "getTokenSupply" -> <<Await("rpcCall", fn)>>
      [] fn = "getTopHolders" -> HolderSteps
      [] fn = "getAddressTransactionHistory" -> HistorySteps
      [] fn = "getWalletInfo" ->
            <<Await("rpcCall", fn), Await("rpcCall", fn)>> \o HolderSteps \o HistorySteps
      [] fn = "getTokenMetadata" -> MetadataSteps
      [] fn = "getUSDConversionRate" ->
            MetadataSteps \o <<Await("fetch", fn), Await("json", fn)>>

\* The first step behind the body of the function that holds step k.
AfterScope(fn, k) ==
    LET later == {j \in (k + 1)..Len(Steps(fn)) : Steps(fn)[j].scope # Steps(fn)[k].scope}
    IN IF later = {} THEN Len(Steps(fn)) + 1
       ELSE CHOOSE j \in later : \A i \in later : j <= i

\* What the catch block of a soft query returns.
Fallback(fn) ==
    CASE fn = "getTokenSupply" -> "1000000000"
      [] fn = "getTopHolders" -> "[]"
      [] fn = "getAddressTransactionHistory" -> "[]"
      [] fn = "getWalletInfo" -> "null"
      [] fn = "getTokenMetadata" -> "IPG"
      [] fn = "getUSDConversionRate" -> "0"

\* 5 * 60 * 1000
CACHE_DURATION == 300000

\* Date.now()
DateNow == clock * (CACHE_DURATION \div 2)

NoAttempt == [start |-> -1, value |-> "null"]

NoSoft == [fn |-> "none", st |-> "idle", k |-> 0, now |-> 0, value |-> "",
           failed |-> FALSE, hit |-> FALSE]

\* Control reaches step k of the query c: the await, or the return behind
\* the last one.
Proceed(c, k) ==
    IF k > Len(Steps(c.fn))
    THEN [c EXCEPT !.st = "returned", !.k = k, !.value = "result"]
    ELSE [c EXCEPT !.st = "awaiting", !.k = k]

\* getTokenMetadata returns v: to its caller, or into getUSDConversionRate.
MetadataReturns(c, v) ==
    IF c.fn = "getTokenMetadata"
    THEN [c EXCEPT !.st = "returned", !.value = v]
    ELSE Proceed(c, Len(MetadataSteps) + 1)

\* tokenMetadataCache && now - tokenMetadataCacheTime < CACHE_DURATION
CacheValid ==
    tokenMetadataCache # "null" /\ DateNow - tokenMetadataCacheTime < CACHE_DURATION

\* getTokenMetadata() is entered by the query c: the cached value while it is
\* valid, the fetch otherwise.
EnterMetadata(c) ==
    LET d == [c EXCEPT !.now = DateNow, !.hit = CacheValid]
    IN IF CacheValid THEN MetadataReturns(d, tokenMetadataCache) ELSE Proceed(d, 1)

\* Mutant: the catch block throws, as the one of getRecentTransactions does.
SoftCatchRethrows(c) == [c EXCEPT !.st = "thrown", !.failed = TRUE]

\* The catch block of the query c.
SoftCatch(c) == [c EXCEPT !.st = "returned", !.value = Fallback(c.fn), !.failed = TRUE]

\* Of the fetches that finished, the one started last, once the fetch of the
\* query c has finished with v.
Attempted(c, v) ==
    IF c.now >= lastAttempt.start THEN [start |-> c.now, value |-> v] ELSE lastAttempt

\* tokenMetadataCache = v; tokenMetadataCacheTime = now
CacheFilled(c, v) ==
    /\ tokenMetadataCache' = v
    /\ tokenMetadataCacheTime' = c.now
    /\ lastAttempt' = Attempted(c, v)

CacheKept == UNCHANGED <<tokenMetadataCache, tokenMetadataCacheTime, lastAttempt>>

\* A soft query is called in the free slot s.
StartSoft(s, fn) ==
    /\ soft[s] = NoSoft
    /\ soft' = [soft EXCEPT ![s] =
                   IF Steps(fn)[1].scope = "getTokenMetadata"
                   THEN EnterMetadata([NoSoft EXCEPT !.fn = fn])
                   ELSE Proceed([NoSoft EXCEPT !.fn = fn], 1)]
    /\ CacheKept
    /\ UNCHANGED <<clock, govVars, clientVars, storeVars, queryVars>>

\* What an await of the query can resolve to besides the answer it expects:
\* a metadata list without on-chain metadata, a wallet without token accounts.
CanBeAbsent(c) ==
    \/ Steps(c.fn)[c.k] = MetadataSteps[2]
    \/ c.fn = "getWalletInfo" /\ c.k = 1

\* The await of the query in slot s resolves.
SoftAnswers(s, absent) ==
    LET c == soft[s]
        step == Steps(c.fn)[c.k]
    IN /\ c.st = "awaiting"
       /\ absent => CanBeAbsent(c)
       /\ IF step.scope = "getTokenMetadata" /\ c.k >= 2 /\ ~(c.k = 2 /\ absent)
          THEN LET v == IF c.k = 2 THEN "onChain" ELSE "JPG"
               IN /\ soft' = [soft EXCEPT ![s] = MetadataReturns(c, v)]
                  /\ CacheFilled(c, v)
          ELSE /\ soft' = [soft EXCEPT ![s] =
                              IF absent /\ c.fn = "getWalletInfo"
                              THEN [c EXCEPT !.st = "returned", !.value = "null"]
                              ELSE Proceed(c, c.k + 1)]
               /\ CacheKept
       /\ UNCHANGED <<clock, govVars, clientVars, storeVars, queryVars>>

\* The await of the query in slot s rejects, or resolves to a value the next
\* statements cannot read (TypeError): the catch block of the function that
\* holds the await runs.
SoftFails(s) ==
    LET c == soft[s]
        step == Steps(c.fn)[c.k]
    IN /\ c.st = "awaiting"
       /\ soft' = [soft EXCEPT ![s] =
                      IF step.scope = c.fn THEN SoftCatch(c)
                      ELSE Proceed(c, AfterScope(c.fn, c.k))]
       /\ IF step.scope = "getTokenMetadata"
          THEN CacheFilled(c, Fallback("getTokenMetadata"))
          ELSE CacheKept
       /\ UNCHANGED <<clock, govVars, clientVars, storeVars, queryVars>>

\* The caller takes what the query in slot s returned or threw.
SoftDone(s) ==
    /\ soft[s].st \in {"returned", "thrown"}
    /\ soft' = [soft EXCEPT ![s] = NoSoft]
    /\ CacheKept
    /\ UNCHANGED <<clock, govVars, clientVars, storeVars, queryVars>>

\* Time passes.
Tick ==
    /\ clock < MaxClock
    /\ clock' = clock + 1
    /\ CacheKept
    /\ UNCHANGED <<soft, govVars, clientVars, storeVars, queryVars>>

----------------------------------------------------------------------------
(* Specifications *)

ClientIdle ==
    /\ call = NoCall
    /\ parse = ParseIdle

\* A provider that has been polling for a while: mounted, no request in
\* flight, the window within MaxSlack places of its cap.
StoreBusy ==
    /\ \E len \in (maxWindow - MaxSlack)..maxWindow :
          store = [StoreNew EXCEPT !.transactions = BusyWindow(len), !.loading = FALSE,
                                   !.metrics = 1, !.supply = 1, !.holders = 1,
                                   !.tokenMetadata = 1]
    /\ provider = [ProviderNew EXCEPT !.phase = "mounted", !.isMounted = TRUE,
                                      !.pollTimer = TRUE, !.staticTimer = TRUE,
                                      !.refreshes = 1]
    /\ chainLen = 0
    /\ pollLog = PollLogNew

QueryIdle == query = NoQuery

SoftIdle ==
    /\ soft = [s \in 1..MaxSoft |-> NoSoft]
    /\ tokenMetadataCache = "null"
    /\ tokenMetadataCacheTime = 0
    /\ clock = 0
    /\ lastAttempt = NoAttempt

StoreIdle ==
    /\ store = StoreNew
    /\ provider = ProviderNew
    /\ chainLen = 0
    /\ pollLog = PollLogNew

GovIdle ==
    /\ queue = <<>>
    /\ processing = FALSE
    /\ drains = <<>>
    /\ ops = <<>>
    /\ added = 0
    /\ direct = 0

\* The governor and the operations it runs.
GovStep ==
    \/ Add
    \/ \E d \in 1..MaxOps : DelayExpires(d)
    \/ \E id \in 1..MaxOps : AttemptSucceeds(id)
    \/ \E id \in 1..MaxOps : AttemptFails(id)
    \/ \E id \in 1..MaxOps : BackoffExpires(id)

InitGov == GovIdle /\ ClientIdle /\ StoreIdle /\ QueryIdle /\ SoftIdle

NextGov == GovStep

SpecGov == InitGov /\ [][NextGov]_vars

\* The governor together with the requests the queries issue around it.
UpstreamStep ==
    \/ Add
    \/ \E d \in 1..MaxOps : DelayExpires(d)
    \/ \E id \in 1..MaxOps : AttemptSucceeds(id)
    \/ \E id \in 1..MaxOps : AttemptFails(id)
    \/ \E id \in 1..MaxOps : BackoffExpires(id)
    \/ ConnectionRequest
    \/ QuoteRequest
    \/ DirectResponds

InitUpstream == GovIdle /\ ClientIdle /\ StoreIdle /\ QueryIdle /\ SoftIdle

NextUpstream == UpstreamStep

SpecUpstream == InitUpstream /\ [][NextUpstream]_vars

\* The governor alone, with the scheduling the event loop gives it: a timer
\* that was set fires, and every attempt of an operation comes to an end.
GovLiveStep ==
    \/ Submit(MaxLiveOps)
    \/ \E d \in 1..MaxLiveOps : DelayExpires(d)
    \/ \E id \in 1..MaxLiveOps : AttemptSucceeds(id)
    \/ \E id \in 1..MaxLiveOps : AttemptFails(id)
    \/ \E id \in 1..MaxLiveOps : BackoffExpires(id)

InitGovLive == GovIdle /\ ClientIdle /\ StoreIdle /\ QueryIdle /\ SoftIdle

NextGovLive == GovLiveStep

GovFairness ==
    /\ \A d \in 1..MaxLiveOps : WF_vars(DelayExpires(d))
    /\ \A id \in 1..MaxLiveOps : WF_vars(AttemptSucceeds(id) \/ AttemptFails(id))
    /\ \A id \in 1..MaxLiveOps : WF_vars(BackoffExpires(id))

SpecGovLive == InitGovLive /\ [][NextGovLive]_vars /\ GovFairness

\* The on-chain queries.
QueryStep ==
    \/ \E fn \in {"recent", "metrics"} : StartQuery(fn)
    \/ \E n \in 0..MaxListed : ListingAnswers(n)
    \/ ListingFails
    \/ \E parsed \in BOOLEAN : TransactionAnswers(parsed)
    \/ TransactionFails
    \/ QueryDone

InitQuery == GovIdle /\ ClientIdle /\ StoreIdle /\ QueryIdle /\ SoftIdle

NextQuery == QueryStep

SpecQuery == InitQuery /\ [][NextQuery]_vars

SoftStep ==
    \/ \E fn \in SoftQueries : StartSoft(1, fn)
    \/ \E absent \in BOOLEAN : SoftAnswers(1, absent)
    \/ SoftFails(1)
    \/ SoftDone(1)
    \/ Tick

InitSoft == GovIdle /\ ClientIdle /\ StoreIdle /\ QueryIdle /\ SoftIdle

NextSoft == SoftStep

SpecSoft == InitSoft /\ [][NextSoft]_vars

CacheStep ==
    \/ \E s \in 1..MaxSoft, fn \in {"getTokenMetadata", "getUSDConversionRate"} :
          StartSoft(s, fn)
    \/ \E s \in 1..MaxSoft, absent \in BOOLEAN : SoftAnswers(s, absent)
    \/ \E s \in 1..MaxSoft : SoftFails(s)
    \/ \E s \in 1..MaxSoft : SoftDone(s)
    \/ Tick

InitCache == GovIdle /\ ClientIdle /\ StoreIdle /\ QueryIdle /\ SoftIdle

NextCache == CacheStep

SpecCache == InitCache /\ [][NextCache]_vars

ClientStep ==
    \/ StartRpcCall
    \/ StartFetch
    \/ \E kind \in {"rest", "rpc"} : \E r \in Responses(kind) : Respond(r)
    \/ RetryDelayExpires
    \/ CallSettles
    \/ \E n \in 0..MaxSigs : StartParse(n)
    \/ \E body \in Bodies : ParseResponse(body)
    \/ ParseCatch
    \/ ParseDelayExpires
    \/ ParseReturns
    \/ StartParseOne
    \/ ParseOneSettles
    \/ ParseOneReturns

InitClient == GovIdle /\ ClientIdle /\ StoreIdle /\ QueryIdle /\ SoftIdle

NextClient == ClientStep

SpecClient == InitClient /\ [][NextClient]_vars

\* The provider against an upstream that answers every poll with the most
\* recent transactions.
StoreStep ==
    \/ Mount
    \/ Unmount
    \/ PollTick
    \/ StaticTick
    \/ \E isInitial \in BOOLEAN : PollAnswersRecent(isInitial)
    \/ \E isInitial \in BOOLEAN : PollFails(isInitial)
    \/ \E g \in 1..MaxRefreshes : StaticSucceeds(g)
    \/ \E g \in 1..MaxRefreshes : StaticFails(g)
    \/ ChainGrows

\* The transaction polls against an upstream that may answer with any list.
WindowStep ==
    \/ Mount
    \/ Unmount
    \/ PollTick
    \/ \E isInitial \in BOOLEAN : PollAnswersRecent(isInitial)
    \/ \E isInitial \in BOOLEAN : \E data \in AnyData : PollAnswersAny(isInitial, data)
    \/ \E isInitial \in BOOLEAN : PollFails(isInitial)
    \/ ChainGrows

\* The transaction polls of a window near its cap.
CapStep ==
    \/ PollTick
    \/ \E k \in 0..MaxFresh : PollAnswersFresh(k)
    \/ \E isInitial \in BOOLEAN : PollFails(isInitial)
    \/ Unmount

InitCap == GovIdle /\ ClientIdle /\ StoreBusy /\ QueryIdle /\ SoftIdle

NextCap == CapStep

SpecCap == InitCap /\ [][NextCap]_vars

\* The transaction polls while the history endpoint is up or down.
FallbackStep ==
    \/ Mount
    \/ Unmount
    \/ PollTick
    \/ \E isInitial \in BOOLEAN : PollAnswersRecent(isInitial)
    \/ \E isInitial \in BOOLEAN : PollAnswersFallback(isInitial)
    \/ \E isInitial \in BOOLEAN : PollFails(isInitial)
    \/ ChainGrows

InitFallback == GovIdle /\ ClientIdle /\ StoreIdle /\ QueryIdle /\ SoftIdle

NextFallback == FallbackStep

SpecFallback == InitFallback /\ [][NextFallback]_vars

InitStore == GovIdle /\ ClientIdle /\ StoreIdle /\ QueryIdle /\ SoftIdle

NextStore == StoreStep

InitWindow == GovIdle /\ ClientIdle /\ StoreIdle /\ QueryIdle /\ SoftIdle

NextWindow == WindowStep

SpecWindow == InitWindow /\ [][NextWindow]_vars

SpecStore == InitStore /\ [][NextStore]_vars

----------------------------------------------------------------------------
(* Claims about the governor, checked under SpecGov *)

\* C2 (as claimed): add() never starts the submitted operation inside the
\* add call: no call is ever started synchronously by its own add().
C2_NeverStartedInAdd == \A i \in DOMAIN ops : ~ops[i].sync

\* C2 (amended): add() starts the submitted operation inside the add call
\* exactly when no drain loop was running (`processing` false) at the call;
\* a call added while a drain loop runs is only appended to the queue.
C2_StartedInAddIffIdle == \A i \in DOMAIN ops : ops[i].sync <=> ops[i].idle

\* C2 witness: a call that add() started at once on the idle governor, next
\* to a call that add() only queued because a drain loop was running.
C2_Witness ==
    \E i, j \in DOMAIN ops :
        /\ ops[i].sync /\ ops[i].idle /\ ops[i].st = "inflight"
        /\ ~ops[j].sync /\ ~ops[j].idle /\ ops[j].st = "queued"

\* Number of calls of the burst that opened activation d, while no call was
\* submitted after that burst.
BurstSize(d) == added - drains[d].first + 1

LastOf(b) == b[Len(b)]

\* C3 (as claimed): a burst of more than batchSize calls submitted to the idle
\* governor is run in consecutive batches of exactly batchSize calls, the
\* last batch holding the remainder: the n-th batch starts with the
\* ((n-1)*batchSize+1)-th call of the burst and holds batchSize calls unless
\* it ends with the last call of the burst.
C3_BurstInFullBatches ==
    \A d \in DOMAIN drains :
        (drains[d].alone /\ BurstSize(d) > batchSize) =>
            /\ drains[d].batch[1] = drains[d].first + (drains[d].n - 1) * batchSize
            /\ \/ Len(drains[d].batch) = batchSize
               \/ /\ Len(drains[d].batch) < batchSize
                  /\ LastOf(drains[d].batch) = added

\* C3 (amended): the first batch of such a burst holds the first call alone
\* (add() started it before the others were submitted); the remaining calls
\* are run in consecutive batches of exactly batchSize calls, the last batch
\* holding the remainder.
C3_BurstAfterFirstInFullBatches ==
    \A d \in DOMAIN drains :
        (drains[d].alone /\ BurstSize(d) > batchSize) =>
            /\ drains[d].n = 1 => drains[d].batch = <<drains[d].first>>
            /\ drains[d].n > 1 =>
                 /\ drains[d].batch[1] =
                        drains[d].first + 1 + (drains[d].n - 2) * batchSize
                 /\ \/ Len(drains[d].batch) = batchSize
                    \/ /\ Len(drains[d].batch) < batchSize
                       /\ LastOf(drains[d].batch) = added

\* C3 witness: a burst of more than batchSize calls whose third batch, the
\* remainder, is running after a full batch.
C3_Witness ==
    \E d \in DOMAIN drains :
        /\ drains[d].alone /\ BurstSize(d) > batchSize
        /\ drains[d].n = 3 /\ drains[d].pc = "awaitAll"
        /\ Len(drains[d].batch) < batchSize

\* C4 (as claimed, checked under SpecUpstream): at most batchSize upstream
\* requests are in flight at any time, every request being issued by an
\* operation the governor runs.
C4_AtMostBatchSizeInFlight == InFlight <= batchSize

\* C4 witness of the failure: a full batch in flight and a request issued
\* outside the governor.
C4_Witness ==
    /\ Cardinality({i \in DOMAIN ops : ops[i].st = "inflight"}) = batchSize
    /\ direct > 0

\* C9: at most one drain loop is active at any time, `processing` is true
\* exactly while one is, and a call added while a loop runs is executed by
\* that loop.
C9_OneDrainLoop ==
    /\ Cardinality(DOMAIN drains) <= 1
    /\ processing <=> DOMAIN drains # {}
    /\ \A d \in DOMAIN drains : \A i \in Range(drains[d].batch) :
           i \in DOMAIN ops => ops[i].at = d

\* C9 witness: the running loop executes a call that was added while it was
\* already running.
C9_Witness ==
    \E d \in DOMAIN drains : \E i \in Range(drains[d].batch) :
        /\ i \in DOMAIN ops /\ i # d
        /\ ops[i].at = d /\ ~ops[i].idle /\ ops[i].st = "inflight"

\* C10: no operation of a later batch starts while an operation of an
\* earlier batch has not settled (`old`: still running when a later batch
\* was started).
C10_BatchesDoNotOverlap == \A i \in DOMAIN ops : ~ops[i].old

\* C10 witness: a second batch runs in full after its predecessor retried
\* and settled.
C10_Witness ==
    \E d \in DOMAIN drains :
        /\ drains[d].n = 2 /\ drains[d].pc = "awaitAll"
        /\ Len(drains[d].batch) = batchSize
        /\ \A i \in Range(drains[d].batch) : ops[i].st \in {"inflight", "backoff"}
        /\ \E i \in Range(drains[d].batch) : ops[i].st = "backoff"

\* The number of batches being run that hold the call id.
BatchesHolding(id) ==
    Cardinality({d \in DOMAIN drains : id \in Range(drains[d].batch)})

\* C13: a call is spliced out of the queue once, into one batch, and its
\* handle is settled once; a retry runs inside the call it belongs to and
\* pushes nothing onto the queue.
C13_ConsumedAndSettledOnce ==
    /\ Cardinality(Range(queue)) = Len(queue)
    /\ Range(queue) \subseteq DOMAIN ops
    /\ DOMAIN ops \subseteq 1..added
    /\ \A id \in DOMAIN ops :
          /\ ops[id].taken = (IF id \in Range(queue) THEN 0 ELSE 1)
          /\ ops[id].settles = (IF Settled(ops[id]) THEN 1 ELSE 0)
          /\ ops[id].st = "queued" <=> id \in Range(queue)
          /\ ops[id].attempt > 0 => id \notin Range(queue)
          /\ BatchesHolding(id) <= 1
          /\ id \in Range(queue) => BatchesHolding(id) = 0
          /\ Started(ops[id]) /\ ~Settled(ops[id]) => BatchesHolding(id) = 1

\* A call settled after a retry while a batch-mate is in its last attempt and
\* other calls wait in the queue.
C13_Witness ==
    /\ Len(queue) >= 2
    /\ \E id \in DOMAIN ops : ops[id].settles = 1
    /\ \E id \in DOMAIN ops : ops[id].st = "inflight" /\ ops[id].attempt = maxRetries - 1

\* C14: a call is rejected only by the failure of its own last attempt; the
\* other calls of its batch go on and settle on their own, and the activation
\* goes on to the calls that wait once the batch has settled.
C14_FailureStaysWithItsCall ==
    /\ \A id \in DOMAIN ops :
          /\ ops[id].st = "rejected" <=> ops[id].exhausted
          /\ ops[id].st = "resolved" => ~ops[id].exhausted
    /\ \A d \in DOMAIN drains :
          drains[d].pc = "awaitAll" => ~BatchDone(drains[d].batch, ops)
    /\ Len(queue) > 0 => DOMAIN drains # {}

\* In one batch a call was rejected, another resolved, a third is being
\* retried, and calls wait for the next batch.
C14_Witness ==
    \E d \in DOMAIN drains :
        /\ drains[d].pc = "awaitAll"
        /\ \E i, j, k \in Range(drains[d].batch) :
              /\ ops[i].st = "rejected"
              /\ ops[j].st = "resolved"
              /\ ops[k].st = "inflight" /\ ops[k].attempt > 0
        /\ Len(queue) > 0

----------------------------------------------------------------------------
(* Progress of the governor, checked under SpecGovLive *)

\* The call id was submitted and its handle has been resolved or rejected.
Delivered(id) ==
    /\ added >= id
    /\ id \in DOMAIN ops => Settled(ops[id])

\* C11: every call submitted to the governor eventually settles, given that
\* every attempt of every operation terminates, and no call waits in the
\* queue while no activation of process() is running.
C11_EveryCallSettles ==
    /\ [](Len(queue) > 0 => processing /\ DOMAIN drains # {})
    /\ \A id \in 1..MaxLiveOps : (added >= id) ~> Delivered(id)

\* A call that waited in the queue behind a running batch and was retried has
\* been rejected, and the governor is idle again.
C11_Witness ==
    /\ added >= 3
    /\ ~processing
    /\ Len(queue) = 0
    /\ \A id \in DOMAIN ops : Settled(ops[id])
    /\ \E id \in DOMAIN ops : ops[id].st = "rejected" /\ ~ops[id].idle

\* A batch starts in this step: calls are taken from the queue and run.
BatchStarts ==
    \E id \in DOMAIN ops' :
        /\ ops'[id].st = "inflight"
        /\ ops'[id].taken > (IF id \in DOMAIN ops THEN ops[id].taken ELSE 0)

\* C26: once a batch has settled, the calls of the next batch start only
\* behind the delay of batchDelay, whenever they were submitted.
C26_NextBatchBehindDelay ==
    [][(BatchStarts /\ \E j \in DOMAIN ops : Settled(ops[j])) =>
          \E d \in DOMAIN drains : drains[d].pc = "delay"]_vars

\* The first call settled, the drain loop found the queue empty and stopped;
\* the second call was then submitted and started inside add(), with no
\* delay behind the batch of the first.
C26_Witness ==
    /\ added = 2 /\ DOMAIN ops = {2}
    /\ ops[2].st = "inflight" /\ ops[2].sync /\ ops[2].attempt = 0
    /\ \E d \in DOMAIN drains : drains[d].n = 1 /\ drains[d].first = 2

----------------------------------------------------------------------------
(* Claims about one call and about the batch parser, checked under SpecClient *)

\* C1 (as claimed): after a response with status 429 the wait before the next
\* attempt is baseDelay * 2^attempt plus a jitter in [0, 1000), for
\* fetchWithRetry and for rpcCall alike.
C1_BackoffAfter429 ==
    (call.st = "delay" /\ call.last = "s429") =>
        /\ call.delayMs >= baseDelay * 2^call.i
        /\ call.delayMs < baseDelay * 2^call.i + jitterRange

\* C1 witness of the failure: the second attempt was answered 429 and the
\* call waits the flat baseDelay.
C1_Witness ==
    /\ call.st = "delay" /\ call.last = "s429" /\ call.i = 1
    /\ call.delayMs = baseDelay

\* C8 (as claimed): once a sub-batch failed on a 429 that outlasted the
\* retries, no later sub-batch is requested and the records returned are
\* those of the sub-batches before it.
C8_StopsAfterRateLimit ==
    \A k \in parse.failed429 :
        /\ \A j \in parse.requested : j <= k
        /\ \A x \in Range(parse.results) : x <= k

\* C8 witness of the failure: the function returns records of a sub-batch
\* requested after the one that failed on 429.
C8_Witness ==
    /\ parse.st = "done"
    /\ \E k \in parse.failed429 : \E x \in Range(parse.results) : x > k


\* C12: an operation whose every attempt fails is attempted maxRetries times,
\* never more, and is then rejected with the error of its last attempt.
C12_RejectsAfterMaxRetries ==
    /\ Len(call.errs) <= maxRetries
    /\ call.i < maxRetries
    /\ Len(call.errs) = maxRetries => call.st = "thrown"
    /\ call.st = "thrown" =>
          /\ Len(call.errs) = maxRetries
          /\ call.i + 1 = maxRetries
          /\ call.err = call.errs[maxRetries]

\* Three attempts failed with three different errors and the call threw.
C12_Witness ==
    /\ call.st = "thrown"
    /\ call.errs[1] # call.errs[2]
    /\ call.errs[2] # call.errs[3]
    /\ call.errs[1] # call.errs[3]

\* C17 as stated: when the enhanced parse of one transaction fails on rate
\* limiting that outlasted the retries, parseTransactionWithHelius returns
\* what parseTransactionFallback returns.
C17_FallsBackWhenRateLimited ==
    (parse.st = "oneDone" /\ parse.failed429 # {}) => parse.one = "fallback"

\* parseTransactionWithHelius returned after the third 429 in a row.
C17_Witness ==
    /\ parse.st = "oneDone"
    /\ parse.failed429 = {0}
    /\ parse.one = "null"

\* C24: the sub-batches are requested one after the other, and every
\* sub-batch but the first is requested behind the delay of 1000 ms, whether
\* the sub-batch before it succeeded, failed or had a malformed body.
C24_DelayBeforeEverySubBatch ==
    /\ parse.st = "request" => call.owner = "parse"
    /\ \A i \in parse.requested : i > 0 => i \in parse.delayed

\* The first sub-batch of seven signatures had a body that is no array and
\* the second failed: the three requests ran with no delay between them.
C24_Witness ==
    /\ parse.st = "done" /\ parse.n = 7
    /\ parse.requested = {0, 3, 6}
    /\ parse.delayed = {}
    /\ Range(parse.results) = {7}

\* The records of the sub-batches from index i on that were answered with an
\* array, in the order of the signatures.
RECURSIVE RecordsFrom(_, _)
RecordsFrom(ps, i) ==
    IF i >= ps.n THEN <<>>
    ELSE (IF <<i, "records">> \in ps.bodies THEN SubBatch(ps.n, i)
          ELSE IF <<i, "withNull">> \in ps.bodies THEN Tail(SubBatch(ps.n, i))
          ELSE <<>>)
         \o RecordsFrom(ps, i + subBatchSize)

\* C25: when sub-batches fail with errors other than a rate limit, every
\* sub-batch is still requested and the function returns, in the order of
\* the signatures, the records of every sub-batch that succeeded.
C25_FailedSubBatchIsSkipped ==
    (parse.st = "done" /\ parse.n > 0 /\ parse.failed429 = {}) =>
        /\ parse.requested = {i \in 0..(parse.n - 1) : i % subBatchSize = 0}
        /\ parse.results = RecordsFrom(parse, 0)

\* Seven signatures, the third sub-batch failed with an error other than 429:
\* the six records of the first two sub-batches are returned.
C25_Witness ==
    /\ parse.st = "done" /\ parse.n = 7
    /\ parse.failed = {6} /\ parse.failed429 = {}
    /\ parse.results = <<1, 2, 3, 4, 5, 6>>

----------------------------------------------------------------------------
(* Claims about the store (SpecStore, SpecWindow) *)

NewestFirst(txs) ==
    \A j, k \in DOMAIN txs : j < k => txs[j].timestamp >= txs[k].timestamp

\* C5 as stated: in every reachable state, whatever the polls returned, no
\* two records of the window have the same signature.
C5_NoDuplicateSignatures == NoRepeat(store.transactions)

\* The window keeps its signatures apart as long as no single poll result
\* held the same signature twice: the merge compares a result with the window,
\* never with itself.
WindowDistinctIfResultsDistinct ==
    pollLog.distinct => NoRepeat(store.transactions)

\* A poll result that held a signature twice has been merged into a window
\* of two records or more.
C5_Witness ==
    /\ ~pollLog.distinct
    /\ provider.isMounted
    /\ Len(store.transactions) >= 2

\* C6 as stated: when every poll so far returned the N most recent
\* transactions newest first (N = 5 for the initial poll, 10 afterwards),
\* the window is ordered newest first and whatever the last merge cut off
\* is no newer than any record kept.
C6_WindowNewestFirst ==
    pollLog.recent =>
        /\ NewestFirst(store.transactions)
        /\ \A j \in DOMAIN pollLog.dropped : \A k \in DOMAIN store.transactions :
               pollLog.dropped[j].timestamp <= store.transactions[k].timestamp

\* The initial poll and a later poll have both been merged, all polls having
\* returned the most recent transactions.
C6_Witness ==
    /\ pollLog.recent
    /\ provider.phase = "mounted"
    /\ provider.initialPolls = 0
    /\ Len(store.transactions) >= 3
    /\ chainLen > initialLimit

\* C7 as stated: once the provider is unmounted no step changes the store,
\* and both timers stay cancelled.
C7_NoUpdateAfterTeardown ==
    [][provider.phase = "unmounted" =>
          /\ store' = store
          /\ ~provider'.pollTimer
          /\ ~provider'.staticTimer]_vars

\* The provider is unmounted while a transaction poll and a static refresh
\* are still in flight.
C7_Witness ==
    /\ provider.phase = "unmounted"
    /\ provider.statics # {}
    /\ provider.initialPolls + provider.laterPolls > 0

\* The four fields of the static snapshot.
Snapshot(st) == <<st.metrics, st.supply, st.holders, st.tokenMetadata>>

\* C15 as stated: a static refresh that fails changes nothing in the store
\* but the error field.
C15_FailedRefreshOnlySetsError ==
    [][(\E g \in 1..MaxRefreshes : StaticFails(g)) =>
          /\ store'.error = "static"
          /\ store' = [store EXCEPT !.error = "static"]]_vars

\* C15, amended: a static refresh that fails leaves the four snapshot fields
\* and the window as they were, records the failure in the error field and
\* clears the loading flag.
C15_FailedRefreshKeepsSnapshot ==
    [][(\E g \in 1..MaxRefreshes : StaticFails(g)) =>
          /\ Snapshot(store') = Snapshot(store)
          /\ store'.transactions = store.transactions
          /\ store'.error = "static"
          /\ store'.loading = FALSE]_vars

\* A refresh failed after an earlier one had filled the snapshot.
C15_Witness ==
    /\ store.error = "static"
    /\ Snapshot(store) = <<1, 1, 1, 1>>
    /\ provider.refreshes = 2
    /\ provider.statics = {}

\* C18: the merges of two polls that overlap are applied one after the other,
\* each to the window the other left: every record held before a merge is
\* held after it (below the cap), and a signature both polls return is held
\* once.
C18_OverlappingMergesCompose ==
    [][/\ (Len(store.transactions) < maxWindow =>
              Signatures(store.transactions) \subseteq Signatures(store'.transactions))
       /\ (\E isInitial \in BOOLEAN : PollAnswersRecent(isInitial)) =>
              /\ provider.isMounted =>
                    store'.transactions =
                       ValidNewTransactions(store.transactions,
                          EnhancedResult(RecentData(Limit(
                             provider'.initialPolls < provider.initialPolls))))
                       \o store.transactions
              /\ NoRepeat(store.transactions) => NoRepeat(store'.transactions)]_vars

\* Two polls were in flight together and each added records to the window.
C18_Witness ==
    /\ pollLog.overlap
    /\ pollLog.recent
    /\ NoRepeat(store.transactions)
    /\ Len(store.transactions) >= 3


\* The most recent transactions hold nothing the window lacks.
NothingNew(isInitial) ==
    Len(ValidNewTransactions(store.transactions,
                             EnhancedResult(RecentData(Limit(isInitial))))) = 0

\* C19 as stated: a poll that brings no new meaningful transaction changes
\* nothing in the store, neither when it starts (the ledger being complete
\* and the window up to date) nor when its result arrives.
C19_QuietPollChangesNothing ==
    [][/\ (PollTick /\ chainLen = MaxChain /\ NothingNew(FALSE)) => store' = store
       /\ \A isInitial \in BOOLEAN :
             (PollAnswersRecent(isInitial) /\ NothingNew(isInitial)) => store' = store]_vars

\* C19, amended: a poll that brings no new meaningful transaction leaves the
\* window and the snapshot as they were; it sets the error field to null
\* when it starts, and the initial poll clears the loading flag.
C19_QuietPollKeepsWindow ==
    [][/\ PollTick => store' = [store EXCEPT !.error = "null"]
       /\ \A isInitial \in BOOLEAN :
             (PollAnswersRecent(isInitial) /\ NothingNew(isInitial)) =>
                store' = [store EXCEPT !.loading =
                             IF isInitial /\ provider.isMounted THEN FALSE ELSE @]]_vars

\* A timer poll found nothing new for a window that holds records.
C19_Witness ==
    /\ pollLog.quiet
    /\ provider.isMounted
    /\ Len(store.transactions) >= 2
    /\ provider.initialPolls = 0


\* C20: the window never holds more than 50 records, whatever the size of
\* the results merged into it (checked on windows near the cap, SpecCap).
C20_WindowWithinCap == Len(store.transactions) <= maxWindow

\* A merge into a full window cut records off.
C20_Witness ==
    /\ Len(store.transactions) = maxWindow
    /\ Len(pollLog.dropped) >= 2
    /\ Newest(store.transactions) > maxWindow


\* The window `new` is the window `prev` with n records put in front, none of
\* them with a signature prev holds, and prev cut at the tail only where the
\* cap requires it.
MergedFrom(prev, new) ==
    \E n \in 0..Len(new) :
        LET kept == SubSeq(new, n + 1, Len(new))
        IN /\ Len(kept) <= Len(prev)
           /\ kept = SubSeq(prev, 1, Len(kept))
           /\ Len(kept) = Len(prev) \/ Len(new) = maxWindow
           /\ \A j \in 1..n : new[j].signature \notin Signatures(prev)

\* C21: a merge leaves the records the window held in their order, adds no
\* record with a signature the window held, and puts the records it adds in
\* front of those it held.
C21_MergePrependsNewOnly ==
    [][MergedFrom(store.transactions, store'.transactions)]_vars

\* A result that mixed held and new signatures was merged into a full window
\* (SpecCap): as many records as it brought were cut off at the tail.
C21_Witness ==
    /\ provider.isMounted
    /\ ~pollLog.quiet
    /\ Len(pollLog.dropped) = MaxFresh
    /\ Newest(store.transactions) >= maxWindow + MaxFresh

\* C22: no record of the window has an empty or blank description, a missing
\* or UNKNOWN type, or neither token transfers nor native transfers.
C22_WindowHoldsMeaningfulOnly ==
    \A k \in DOMAIN store.transactions :
        LET tx == store.transactions[k]
        IN /\ tx.description \notin {"", Missing}
           /\ ~IsBlank(tx.description)
           /\ tx.type \notin {"", Missing, "UNKNOWN"}
           /\ Len(tx.tokenTransfers) > 0 \/ Len(tx.nativeTransfers) > 0

\* The ledger holds transactions without a type (3), with a blank description
\* (4) and without transfers (6); polls that listed them were merged and the
\* window holds their neighbours alone.
C22_Witness ==
    /\ chainLen >= 6
    /\ ~PollInFlight(TRUE) /\ ~PollInFlight(FALSE)
    /\ Signatures(store.transactions) = {1, 2, 5}

\* C28: an error recorded by a failed static refresh stays in the error
\* field until a static refresh starts; no step of a transaction poll clears
\* it.
C28_StaticErrorOutlivesPolls ==
    [][(store.error = "static" /\ store'.error = "null") =>
          provider'.refreshes > provider.refreshes]_vars

\* The only static refresh so far has failed and none is running, yet the
\* error field is empty: a poll started since and cleared it.
C28_Witness ==
    /\ provider.isMounted
    /\ provider.refreshes = 1 /\ provider.statics = {} /\ store.metrics = 0
    /\ provider.laterPolls > 0
    /\ store.error = "null"

\* One of the two fetches started at mount has not settled.
InitialFetchInFlight == provider.initialPolls > 0 \/ 1 \in provider.statics

\* C29: loading is true while the initial static refresh or the initial
\* transaction poll is in flight, and once false it stays false.
C29_LoadingUntilBothSettled ==
    /\ [](InitialFetchInFlight => store.loading)
    /\ [][~store.loading => ~store'.loading]_vars

\* The initial poll was answered and cleared the flag while the initial
\* static refresh is still in flight.
C29_Witness ==
    /\ provider.isMounted
    /\ provider.initialPolls = 0 /\ 1 \in provider.statics
    /\ store.error = "null" /\ Len(store.transactions) > 0
    /\ ~store.loading

\* C27: the fallback records with token transfers that a poll got while the
\* history endpoint was down are in the window.
C27_FallbackRecordsReachWindow ==
    pollLog.offered \subseteq Signatures(store.transactions)

\* The endpoint was down from the start: two polls were answered by the
\* fallback with records carrying token transfers, and the window is empty.
C27_Witness ==
    /\ provider.isMounted
    /\ provider.initialPolls = 0 /\ provider.laterPolls = 0
    /\ Cardinality(pollLog.offered) >= 2
    /\ pollLog.recent /\ pollLog.quiet = FALSE
    /\ store.transactions = <<>>

----------------------------------------------------------------------------
(* Claims about the on-chain queries (SpecQuery) *)

\* C16 as stated: getRecentTransactions and getRewardMetrics reject when a
\* request for transaction data failed, the listing or a per-transaction
\* fetch; they return nothing in place of a failed fetch.
C16_FailedFetchRejects ==
    query.st = "returned" => query.failed = {}

\* Every per-transaction fetch failed and getRewardMetrics returned.
C16_Witness ==
    /\ query.fn = "metrics"
    /\ query.st = "returned"
    /\ Len(query.sigs) >= 2
    /\ query.failed = Range(query.sigs)
    /\ query.value = Metrics(<<>>)

----------------------------------------------------------------------------
(* Claims about the soft queries (SpecSoft) *)

----------------------------------------------------------------------------
(* Claims about the token-metadata cache (SpecCache) *)

\* C30: a call of getTokenMetadata made within CACHE_DURATION of the start of
\* the last fetch that finished returns the value of that fetch without an
\* upstream request; a call made later fetches afresh.
C30_CacheServesLastAttempt ==
    [][\A s \in DOMAIN soft :
          soft[s] = NoSoft /\ soft'[s].fn = "getTokenMetadata" /\ lastAttempt.start >= 0 =>
              IF DateNow - lastAttempt.start < CACHE_DURATION
              THEN soft'[s].hit /\ soft'[s].value = lastAttempt.value
              ELSE ~soft'[s].hit]_vars

\* Two fetches overlapped and the one started first finished last: the cache
\* holds its value and its time, and a call is answered with that value
\* while the fetch started last brought another.
C30_Witness ==
    /\ lastAttempt.start > tokenMetadataCacheTime
    /\ lastAttempt.value # tokenMetadataCache
    /\ \E s \in DOMAIN soft :
          /\ soft[s].fn = "getTokenMetadata" /\ soft[s].st = "returned" /\ soft[s].hit
          /\ soft[s].now = DateNow
          /\ soft[s].value = tokenMetadataCache

====
